---- MODULE Spec2Model ----
(***************************************************************************)
(* Model of the authentication backend (src/src/controllers/               *)
(* authController.ts behind src/src/routes/authRoutes.ts): the user and    *)
(* verification-code tables, the clock, and the request handlers register, *)
(* verifyRegistration, login, currentUser and changePassword, run as       *)
(* concurrent requests that interleave at each awaited storage call.       *)
(* One step of a request is: the effect of the storage call it is awaiting *)
(* followed by the synchronous code up to its next await.                   *)
(* Time is counted in minutes.                                             *)
(***************************************************************************)
EXTENDS Integers, Sequences, FiniteSets, TLC

VARIABLES
  users,     \* table User, in insertion order (id = position)
  codes,     \* table VerificationCode, in insertion order (id = position)
  now,       \* the wall clock read by new Date(), in minutes
  ticks,     \* how many times the clock has advanced
  tokens,    \* the bearer tokens signed so far by jwt.sign
  req,       \* the request slots: each running request's position and locals
  resp,      \* the request that ended in the last step, with its response
  audit,     \* per email: how often verified went from false to true, how
             \* many verifyRegistration requests ended with status 200, and
             \* whether one has failed with the code-mismatch error
  started,   \* number of requests received so far
  failures   \* number of storage / bcrypt calls that have thrown so far

vars == <<users, codes, now, ticks, tokens, req, resp, audit, started, failures>>

-----------------------------------------------------------------------------
(* Bounds of the model *)

MaxRequests == 4
MaxFailures == 1
MaxTicks == 1

Slots == {1, 2}

-----------------------------------------------------------------------------
(* Program constants *)

\* newExpirationTime.setMinutes(getMinutes() + 1)
CodeWindow == 1
\* jwt.sign(..., { expiresIn: "1h" })
TokenTTL == 60
\* generateRandomSecret(length = 6)
SecretLength == 6
\* username.length < 4, password.length < 4, newPassword.length < 4
MinLength == 4

-----------------------------------------------------------------------------
(* utils: emailValidator, hashPassword, comparePassword,                    *)
(* generateRandomSecret                                                     *)

Letters ==
  {"a","b","c","d","e","f","g","h","i","j","k","l","m",
   "n","o","p","q","r","s","t","u","v","w","x","y","z",
   "A","B","C","D","E","F","G","H","I","J","K","L","M",
   "N","O","P","Q","R","S","T","U","V","W","X","Y","Z"}

Digits == {"0","1","2","3","4","5","6","7","8","9"}

LocalChars == Letters \cup Digits \cup {".", "_", "%", "+", "-"}

DomainChars == Letters \cup Digits \cup {".", "-"}

\* /^[a-zA-Z0-9._%+-]+@[a-zA-Z0-9.-]+\.[a-zA-Z]{2,}$/ on a sequence of characters
emailValidator(email) ==
  \E at \in 1..Len(email) : \E dot \in 1..Len(email) :
    /\ at > 1
    /\ \A i \in 1..(at - 1) : email[i] \in LocalChars
    /\ email[at] = "@"
    /\ dot > at + 1
    /\ \A i \in (at + 1)..(dot - 1) : email[i] \in DomainChars
    /\ email[dot] = "."
    /\ Len(email) - dot >= 2
    /\ \A i \in (dot + 1)..Len(email) : email[i] \in Letters

\* bcrypt.hash: the digest is not the password; only comparePassword relates them
hashPassword(password) == <<"bcrypt", password>>

\* mutant: bcrypt.compare is not consulted
comparePasswordAlways(plainPassword, hashedPassword) == TRUE

comparePassword(plainPassword, hashedPassword) ==
  hashedPassword = <<"bcrypt", plainPassword>>

DigitChar == <<"0","1","2","3","4","5","6","7","8","9">>

\* mutant: the loop stops one position early
RECURSIVE generateRandomSecretShort(_)
generateRandomSecretShort(draws) ==
  IF Len(draws) <= 1 THEN <<>>
  ELSE <<DigitChar[Head(draws) + 1]>> \o generateRandomSecretShort(Tail(draws))

\* randomSecret += crypto.randomInt(0, 10), once per position
RECURSIVE generateRandomSecret(_)
generateRandomSecret(draws) ==
  IF draws = <<>> THEN <<>>
  ELSE <<DigitChar[Head(draws) + 1]>> \o generateRandomSecret(Tail(draws))

\* the sequences of draws the model lets crypto.randomInt produce
RandomDraws ==
  { [i \in 1..SecretLength |-> 0],
    [i \in 1..SecretLength |-> IF i = SecretLength THEN 7 ELSE 4] }

Secrets == { generateRandomSecret(d) : d \in RandomDraws }

-----------------------------------------------------------------------------
(* errorhandler.ts and HttpError *)

\* new HttpError(message, statusCode); message names the source's template
HttpError(message, statusCode) == [message |-> message, statusCode |-> statusCode]

\* no error is thrown
NoError == [message |-> "", statusCode |-> 0]

\* an Error thrown by prisma or by utils carries no statusCode
PlainError == [message |-> "rejected", statusCode |-> 0]

\* mutant: an error without statusCode is answered with no status
errorHandlerNoDefault(err) == err.statusCode

\* const statusCode = err.statusCode || 500
errorHandler(err) == IF err.statusCode # 0 THEN err.statusCode ELSE 500

\* res.status(statusCode).json({ code, message, details })
ErrorOut(err) == [code |-> errorHandler(err), message |-> err.message]

-----------------------------------------------------------------------------
(* Rows and lookups of the two tables (prisma client) *)

NoUser == [id |-> 0, username |-> "", email |-> <<>>, password |-> <<>>,
           verified |-> FALSE]

NoCode == [id |-> 0, user_id |-> 0, type |-> "", code |-> <<>>,
           expiration_time |-> 0, used |-> FALSE, updated_at |-> 0]

UserRows == { users[i] : i \in 1..Len(users) }

CodeRows == { codes[i] : i \in 1..Len(codes) }

Owner(row) == users[row.user_id]

\* findFirst returns some matching row (no orderBy is given) or null
FirstOf(matches, none) == IF matches = {} THEN {none} ELSE matches

\* prisma.user.findFirst({ where: { OR: [{ username }, { email }] } })
UserByUsernameOrEmail(username, email) ==
  FirstOf({ u \in UserRows : u.username = username \/ u.email = email }, NoUser)

\* mutant: the where clause is dropped and any user row is returned
UserByEmailAny(email) == FirstOf(UserRows, NoUser)

\* mutant: the lookup by email returns verified users only
UserByEmailVerifiedOnly(email) ==
  FirstOf({ u \in UserRows : u.email = email /\ u.verified }, NoUser)

\* prisma.user.findFirst({ where: { email } })
UserByEmail(email) ==
  FirstOf({ u \in UserRows : u.email = email }, NoUser)

\* where: { type: "Register", user: { username, verified: false } }
RegisterCodeOfUnverified(username) ==
  FirstOf({ c \in CodeRows : /\ c.type = "Register"
                             /\ Owner(c).username = username
                             /\ Owner(c).verified = FALSE }, NoCode)

\* mutant: the lookup of verifyRegistration has no filter on type
RegisterCodeOfEmailAnyType(email) ==
  FirstOf({ c \in CodeRows : Owner(c).email = email }, NoCode)

\* where: { type: "Register", user: { email: email } }
RegisterCodeOfEmail(email) ==
  FirstOf({ c \in CodeRows : /\ c.type = "Register"
                             /\ Owner(c).email = email }, NoCode)

\* where: { type: "PasswordChange", user: { username }, used: false }
UnusedPasswordChangeCode(username) ==
  FirstOf({ c \in CodeRows : /\ c.type = "PasswordChange"
                             /\ Owner(c).username = username
                             /\ c.used = FALSE }, NoCode)

\* @unique on User.email and User.username
UniqueViolation(username, email) ==
  \E u \in UserRows : u.username = username \/ u.email = email

\* data of prisma.user.create in register
NewUserRow(id, username, email, hashedPassword) ==
  [id |-> id, username |-> username, email |-> email,
   password |-> hashedPassword, verified |-> FALSE]

\* mutant: the minute is not added to the expiration time
ExpirationFromNoWindow(currentTime) == currentTime

\* expirationTime.setMinutes(expirationTime.getMinutes() + 1)
ExpirationFrom(currentTime) == currentTime + CodeWindow

\* data of prisma.verificationCode.create
NewCodeRow(id, user_id, type, code, currentTime) ==
  [id |-> id, user_id |-> user_id, type |-> type, code |-> code,
   expiration_time |-> ExpirationFrom(currentTime), used |-> FALSE,
   updated_at |-> currentTime]

\* mutant: the refresh leaves the old expiration time in the row
RefreshedRowStaleExpiry(row, code, currentTime) ==
  [row EXCEPT !.code = code, !.used = FALSE, !.updated_at = currentTime]

\* data of prisma.verificationCode.update when a code is refreshed
RefreshedRow(row, code, currentTime) ==
  [row EXCEPT !.code = code,
              !.expiration_time = ExpirationFrom(currentTime),
              !.used = FALSE,
              !.updated_at = currentTime]

\* mutant: the code update does not set used
ConsumedRowKeepsUsed(row, currentTime) ==
  [row EXCEPT !.updated_at = currentTime]

\* data of prisma.verificationCode.update in verifyRegistration
ConsumedRow(row, currentTime) ==
  [row EXCEPT !.used = TRUE, !.updated_at = currentTime]

\* mutant: the user update flips verified instead of setting it
VerifiedRowToggled(row) == [row EXCEPT !.verified = ~row.verified]

\* mutant: the user update also writes an empty password
VerifiedRowDropsPassword(row) == [row EXCEPT !.verified = TRUE, !.password = <<>>]

\* mutant: the user update does not set verified
VerifiedRowUnchanged(row) == row

\* data of prisma.user.update in verifyRegistration
VerifiedRow(row) == [row EXCEPT !.verified = TRUE]

\* mutant: a code whose expiration time is the current time counts as valid
StillValidInclusive(entry, currentTime) == entry.expiration_time >= currentTime

\* verificationCodeEntry.expiration_time > currentTime
StillValid(entry, currentTime) == entry.expiration_time > currentTime

-----------------------------------------------------------------------------
(* jsonwebtoken *)

\* jwt.sign({ userId, email }, JWT_SECRET, { expiresIn: "1h" })
SignToken(user, currentTime) ==
  [userId |-> user.id, email |-> user.email, exp |-> currentTime + TokenTTL]

-----------------------------------------------------------------------------
(* Requests *)

NoBody == [none |-> TRUE]

\* the tables as a request's last step found them
NoTables == [users |-> <<>>, codes |-> <<>>]

NoOut == [none |-> TRUE]

\* a slot in which no request is running
Idle == [op |-> "idle", pc |-> "idle", body |-> NoBody, user |-> NoUser,
         newUser |-> NoUser, entry |-> NoCode, updatedEntry |-> NoCode,
         t |-> 0, secret |-> <<>>,
         status |-> 0, out |-> NoOut, via |-> "", before |-> NoTables]

Received(op, body) == [Idle EXCEPT !.op = op, !.body = body]

\* the request is over: status is the HTTP status sent, 0 when the handler
\* returned without sending a response or forwarding an error
Done(r, status, out, via) ==
  [r EXCEPT !.pc = "done", !.status = status, !.out = out, !.via = via]

\* catch (error) { next(error) } followed by errorHandler
Throw(r, err) == Done(r, errorHandler(err), ErrorOut(err), "error")

\* res.status(status).json(out)
Respond(r, status, out, via) == Done(r, status, out, via)

\* the handler returns without res.json and without next(error)
ReturnSilently(r) == Done(r, 0, NoOut, "silent")

Running(s) == req[s].pc # "idle"

\* no request ended in the last step
NoResp == Idle

\* slot s continues as r, or the request ends and leaves its response,
\* together with the tables as they were before the request's last step
Settle(s, r) ==
  IF r.pc = "done"
  THEN /\ req' = [req EXCEPT ![s] = Idle]
       /\ resp' = [r EXCEPT !.before = [users |-> users, codes |-> codes]]
  ELSE /\ req' = [req EXCEPT ![s] = r]
       /\ resp' = NoResp

\* a new request takes the lowest slot in which no request is running
CanStart(s) ==
  /\ started < MaxRequests
  /\ ~Running(s)
  /\ \A q \in Slots : q < s => Running(q)

MayFail == failures < MaxFailures

\* mutant: a rejected verificationCode.create of register is answered 201
RejectsReportsCreated(s, r) ==
  /\ MayFail
  /\ failures' = failures + 1
  /\ Settle(s, IF r.pc = "reg_createCode"
               THEN Respond(r, 201, NoOut, "created")
               ELSE Throw(r, PlainError))

\* an awaited prisma or bcrypt call rejects
Rejects(s, r) ==
  /\ MayFail
  /\ failures' = failures + 1
  /\ Settle(s, Throw(r, PlainError))

-----------------------------------------------------------------------------
(* Request inputs *)

EmailA == <<"a", "@", "b", ".", "i", "o">>

EmailB == <<"c", "@", "d", ".", "i", "o">>

EmailBad == <<"a", "@", "b">>

RegisterBodies ==
  { [username |-> "alice", password |-> "pass1", email |-> EmailA],
    [username |-> "bobby", password |-> "pass2", email |-> EmailB],
    [username |-> "alice", password |-> "pass1", email |-> EmailB],
    [username |-> "",      password |-> "pass1", email |-> EmailA],
    [username |-> "bob",   password |-> "pass1", email |-> EmailA],
    [username |-> "alice", password |-> "abc",   email |-> EmailA],
    [username |-> "alice", password |-> "pass1", email |-> EmailBad],
    [username |-> "",      password |-> "abc",   email |-> EmailBad],
    [username |-> "bob",   password |-> "abc",   email |-> EmailBad],
    [username |-> "alice", password |-> "abc",   email |-> EmailBad] }

VerifyBodies ==
  { [email |-> EmailA, code |-> c] : c \in Secrets }
  \cup { [email |-> EmailB, code |-> generateRandomSecret([i \in 1..SecretLength |-> 0])],
         [email |-> EmailA, code |-> <<>>] }

-----------------------------------------------------------------------------
(* register *)

\* mutant: the password length is tested before the username length
RegisterChecksPasswordFirst(body) ==
  IF body.username = "" \/ body.password = "" \/ body.email = <<>>
  THEN HttpError("missing fields", 404)
  ELSE IF Len(body.password) < MinLength THEN HttpError("password too short", 400)
  ELSE IF Len(body.username) < MinLength THEN HttpError("username too short", 400)
  ELSE IF ~emailValidator(body.email) THEN HttpError("email format is invalid", 400)
  ELSE NoError

\* the throw statements before the first storage call, in source order
RegisterChecks(body) ==
  IF body.username = "" \/ body.password = "" \/ body.email = <<>>
  THEN HttpError("missing fields", 404)
  ELSE IF Len(body.username) < MinLength THEN HttpError("username too short", 400)
  ELSE IF Len(body.password) < MinLength THEN HttpError("password too short", 400)
  ELSE IF ~emailValidator(body.email) THEN HttpError("email format is invalid", 400)
  ELSE NoError

\* the status of the checks before the first storage call; 0 when they pass
RegisterValidation(body) == RegisterChecks(body).statusCode

\* from the result of prisma.user.findFirst to the next await
RegisterAfterUser(r, existingUser) ==
  IF existingUser.id # 0
  THEN IF existingUser.verified /\ existingUser.username = r.body.username
       THEN Throw([r EXCEPT !.user = existingUser], HttpError("already exists", 409))
       ELSE IF existingUser.verified /\ existingUser.email = r.body.email
       THEN Throw([r EXCEPT !.user = existingUser], HttpError("already in use", 409))
       ELSE [r EXCEPT !.pc = "reg_findCode", !.user = existingUser]
  ELSE [r EXCEPT !.pc = "reg_createUser"]

\* the body of the 200 / 201 responses of register and changePassword
CodeOut(email, type, row) ==
  [email |-> email, type |-> type, code |-> row.code,
   expiration_time |-> row.expiration_time]

\* mutant: register does not look at the used flag of the code it found
RegisterAfterCodeIgnoresUsed(r, entry, secret, currentTime) ==
  IF entry.id # 0
  THEN IF StillValid(entry, currentTime)
       THEN Respond([r EXCEPT !.entry = entry, !.t = currentTime], 200,
                    CodeOut(r.body.email, "Register", entry), "reminded")
       ELSE [r EXCEPT !.pc = "reg_updateCode", !.entry = entry,
                      !.t = currentTime, !.secret = secret]
  ELSE ReturnSilently(r)

\* from the result of prisma.verificationCode.findFirst to the next await
RegisterAfterCode(r, entry, secret, currentTime) ==
  IF entry.id # 0
  THEN IF entry.used
       THEN Throw([r EXCEPT !.entry = entry], HttpError("code is already used", 409))
       ELSE IF StillValid(entry, currentTime)
       THEN Respond([r EXCEPT !.entry = entry, !.t = currentTime], 200,
                    CodeOut(r.body.email, "Register", entry), "reminded")
       ELSE [r EXCEPT !.pc = "reg_updateCode", !.entry = entry,
                      !.t = currentTime, !.secret = secret]
  ELSE ReturnSilently(r)

\* POST /register arrives: the checks, await prisma.user.findFirst and, for a
\* new user, await hashPassword (the second Rejects is bcrypt's)
RegisterStart(s) ==
  /\ CanStart(s)
  /\ started' = started + 1
  /\ UNCHANGED <<users, codes, now, ticks, audit, tokens>>
  /\ \E body \in RegisterBodies :
       LET r == Received("register", body) IN
       IF RegisterValidation(body) # 0
       THEN /\ Settle(s, Throw(r, RegisterChecks(body)))
            /\ UNCHANGED failures
       ELSE \/ Rejects(s, r)
            \/ /\ UserByUsernameOrEmail(body.username, body.email) = {NoUser}
               /\ Rejects(s, r)
            \/ /\ UNCHANGED failures
               /\ \E existingUser \in UserByUsernameOrEmail(body.username, body.email) :
                    Settle(s, RegisterAfterUser(r, existingUser))

\* await prisma.verificationCode.findFirst (Register code of the unverified user)
RegisterFindCode(s) ==
  /\ req[s].pc = "reg_findCode"
  /\ UNCHANGED <<users, codes, now, ticks, audit, tokens, started>>
  /\ \/ Rejects(s, req[s])
     \/ /\ UNCHANGED failures
        /\ \E entry \in RegisterCodeOfUnverified(req[s].body.username) :
           \E draws \in RandomDraws :
             Settle(s, RegisterAfterCode(req[s], entry, generateRandomSecret(draws), now))

\* await prisma.verificationCode.update (refresh), then res.status(200)
RegisterUpdateCode(s) ==
  /\ req[s].pc = "reg_updateCode"
  /\ UNCHANGED <<users, now, ticks, audit, tokens, started>>
  /\ \/ /\ Rejects(s, req[s])
        /\ UNCHANGED codes
     \/ /\ UNCHANGED failures
        /\ LET r == req[s]
               updated == RefreshedRow(codes[r.entry.id], r.secret, r.t)
           IN /\ codes' = [codes EXCEPT ![r.entry.id] = updated]
              /\ Settle(s, Respond(r, 200, CodeOut(r.body.email, "Register", updated), "refreshed"))

\* await prisma.user.create, then prisma.verificationCode.create is issued
RegisterCreateUser(s) ==
  /\ req[s].pc = "reg_createUser"
  /\ UNCHANGED <<codes, now, ticks, audit, tokens, started>>
  /\ LET r == req[s] IN
     \/ /\ Rejects(s, r)
        /\ UNCHANGED users
     \/ /\ UniqueViolation(r.body.username, r.body.email)
        /\ Settle(s, Throw(r, PlainError))
        /\ UNCHANGED <<users, failures>>
     \/ /\ ~UniqueViolation(r.body.username, r.body.email)
        /\ UNCHANGED failures
        /\ LET newUser == NewUserRow(Len(users) + 1, r.body.username, r.body.email,
                                     hashPassword(r.body.password))
           IN /\ users' = Append(users, newUser)
              /\ \E draws \in RandomDraws :
                   Settle(s, [r EXCEPT !.pc = "reg_createCode", !.newUser = newUser,
                                       !.t = now, !.secret = generateRandomSecret(draws)])

\* await prisma.verificationCode.create, then res.status(201)
RegisterCreateCode(s) ==
  /\ req[s].pc = "reg_createCode"
  /\ UNCHANGED <<users, now, ticks, audit, tokens, started>>
  /\ LET r == req[s] IN
     \/ /\ Rejects(s, r)
        /\ UNCHANGED codes
     \/ /\ UNCHANGED failures
        /\ LET row == NewCodeRow(Len(codes) + 1, r.newUser.id, "Register", r.secret, r.t)
           IN /\ codes' = Append(codes, row)
              /\ Settle(s, Respond(r, 201, CodeOut(r.body.email, row.type, row), "created"))

-----------------------------------------------------------------------------
(* verifyRegistration *)

VerifyValidation(body) ==
  IF body.email = <<>> \/ body.code = <<>> THEN 404 ELSE 0

\* mutant: verifyRegistration does not look at the verified flag of the user
VerifyAfterUserIgnoresVerified(r, user) ==
  IF user.id = 0 THEN Throw(r, HttpError("doesn't exists", 404))
  ELSE [r EXCEPT !.pc = "ver_findCode", !.user = user]

\* mutant: the already-verified check reports the code as used
VerifyAfterUserReportsUsed(r, user) ==
  IF user.id = 0 THEN Throw(r, HttpError("doesn't exists", 404))
  ELSE IF user.verified
  THEN Throw([r EXCEPT !.user = user], HttpError("is already used", 400))
  ELSE [r EXCEPT !.pc = "ver_findCode", !.user = user]

\* from the result of prisma.user.findFirst to the next await
VerifyAfterUser(r, user) ==
  IF user.id = 0 THEN Throw(r, HttpError("doesn't exists", 404))
  ELSE IF user.verified
  THEN Throw([r EXCEPT !.user = user], HttpError("is already verified", 400))
  ELSE [r EXCEPT !.pc = "ver_findCode", !.user = user]

\* mutant: the supplied code is not compared with the stored one
VerifyAfterCodeNoCompare(r, entry, currentTime) ==
  IF entry.id = 0 THEN Throw(r, HttpError("code doesn't exist", 404))
  ELSE IF entry.used
  THEN Throw([r EXCEPT !.entry = entry], HttpError("is already used", 400))
  ELSE [r EXCEPT !.pc = "ver_updateCode", !.entry = entry, !.t = currentTime]

\* mutant: an expired code is refused at consumption
VerifyAfterCodeChecksExpiry(r, entry, currentTime) ==
  IF entry.id = 0 THEN Throw(r, HttpError("code doesn't exist", 404))
  ELSE IF entry.code # r.body.code
  THEN Throw([r EXCEPT !.entry = entry], HttpError("doesn't match", 400))
  ELSE IF entry.used
  THEN Throw([r EXCEPT !.entry = entry], HttpError("is already used", 400))
  ELSE IF ~StillValid(entry, currentTime)
  THEN Throw([r EXCEPT !.entry = entry, !.t = currentTime], HttpError("is expired", 400))
  ELSE [r EXCEPT !.pc = "ver_updateCode", !.entry = entry, !.t = currentTime]

\* from the result of prisma.verificationCode.findFirst to the next await
VerifyAfterCode(r, entry, currentTime) ==
  IF entry.id = 0 THEN Throw(r, HttpError("code doesn't exist", 404))
  ELSE IF entry.code # r.body.code
  THEN Throw([r EXCEPT !.entry = entry], HttpError("doesn't match", 400))
  ELSE IF entry.used
  THEN Throw([r EXCEPT !.entry = entry], HttpError("is already used", 400))
  ELSE [r EXCEPT !.pc = "ver_updateCode", !.entry = entry, !.t = currentTime]

\* res.status(200).json({ ...updatedUser, token })
VerifyOut(updatedUser, token) == [user |-> updatedUser, token |-> token]

\* POST /verify arrives: the checks, then await prisma.user.findFirst
VerifyStart(s) ==
  /\ CanStart(s)
  /\ started' = started + 1
  /\ UNCHANGED <<users, codes, now, ticks, audit, tokens>>
  /\ \E body \in VerifyBodies :
       LET r == Received("verify", body) IN
       IF VerifyValidation(body) # 0
       THEN /\ Settle(s, Throw(r, HttpError("missing fields", VerifyValidation(body))))
            /\ UNCHANGED failures
       ELSE \/ Rejects(s, r)
            \/ /\ UNCHANGED failures
               /\ \E user \in UserByEmail(body.email) :
                    Settle(s, VerifyAfterUser(r, user))

\* await prisma.verificationCode.findFirst (Register code of the email's user)
VerifyFindCode(s) ==
  /\ req[s].pc = "ver_findCode"
  /\ UNCHANGED <<users, codes, now, ticks, tokens, started>>
  /\ \/ /\ Rejects(s, req[s])
        /\ UNCHANGED audit
     \/ /\ UNCHANGED failures
        /\ \E entry \in RegisterCodeOfEmail(req[s].body.email) :
             LET r == VerifyAfterCode(req[s], entry, now) IN
             /\ Settle(s, r)
             /\ audit' = IF r.pc = "done" /\ r.out.message = "doesn't match"
                         THEN [audit EXCEPT ![r.body.email].mismatch = 1]
                         ELSE audit

\* await prisma.verificationCode.update({ data: { used: true, updated_at } })
VerifyUpdateCode(s) ==
  /\ req[s].pc = "ver_updateCode"
  /\ UNCHANGED <<users, now, ticks, audit, tokens, started>>
  /\ \/ /\ Rejects(s, req[s])
        /\ UNCHANGED codes
     \/ /\ UNCHANGED failures
        /\ LET r == req[s]
               updatedEntry == ConsumedRow(codes[r.entry.id], r.t)
           IN /\ codes' = [codes EXCEPT ![r.entry.id] = updatedEntry]
              /\ Settle(s, [r EXCEPT !.pc = "ver_updateUser",
                                  !.updatedEntry = updatedEntry])

\* await prisma.user.update({ where: { email }, data: { verified: true } }),
\* then jwt.sign and res.status(200)
VerifyUpdateUser(s) ==
  /\ req[s].pc = "ver_updateUser"
  /\ UNCHANGED <<codes, now, ticks, started>>
  /\ \/ /\ Rejects(s, req[s])
        /\ UNCHANGED <<users, tokens, audit>>
     \/ /\ UNCHANGED failures
        /\ LET r == req[s]
               i == CHOOSE k \in 1..Len(users) : users[k].email = r.body.email
               updatedUser == VerifiedRow(users[i])
               token == SignToken(updatedUser, now)
           IN /\ users' = [users EXCEPT ![i] = updatedUser]
              /\ tokens' = tokens \cup {token}
              /\ audit' = [audit EXCEPT
                   ![r.body.email].flips = @ + (IF users[i].verified THEN 0 ELSE 1),
                   ![r.body.email].ok = @ + 1]
              /\ Settle(s, Respond(r, 200, VerifyOut(updatedUser, token), "verified"))

-----------------------------------------------------------------------------
(* authMiddleware.ts: validateToken *)

NoToken == [userId |-> 0, email |-> <<>>, exp |-> 0]

\* a token that jwt.sign of this server did not produce
ForgedToken == [userId |-> 1, email |-> EmailA, exp |-> 0]

NoHeader == [scheme |-> "", token |-> NoToken]

Bearer(token) == [scheme |-> "Bearer", token |-> token]

\* headers that carry no token signed by this server
BadHeaders == { NoHeader, [scheme |-> "Basic", token |-> NoToken], Bearer(ForgedToken) }

\* jwt.verify(token, JWT_SECRET): the signature is checked before the expiry
JwtVerify(token, currentTime) ==
  IF token \notin tokens THEN "JsonWebTokenError"
  ELSE IF currentTime >= token.exp THEN "TokenExpiredError"
  ELSE "decoded"

\* mutant: an expired token is reported as an invalid one
validateTokenExpiredIsInvalid(header, currentTime) ==
  IF header.scheme # "Bearer" THEN 401
  ELSE IF JwtVerify(header.token, currentTime) = "decoded" THEN 0
  ELSE 403

\* the status validateToken forwards to next(err), 0 when it calls next()
validateToken(header, currentTime) ==
  IF header.scheme # "Bearer" THEN 401
  ELSE IF JwtVerify(header.token, currentTime) = "decoded" THEN 0
  ELSE IF JwtVerify(header.token, currentTime) = "TokenExpiredError" THEN 401
  ELSE IF JwtVerify(header.token, currentTime) = "JsonWebTokenError" THEN 403
  ELSE 500

-----------------------------------------------------------------------------
(* login *)

LoginBodies ==
  { [email |-> EmailA, password |-> "pass1"],
    [email |-> EmailA, password |-> "pass2"],
    [email |-> EmailA, password |-> ""] }

LoginValidation(body) ==
  IF body.email = <<>> \/ body.password = "" THEN 404 ELSE 0

\* res.status(200).json({ user: user, token: token })
LoginOut(user, token) == [user |-> user, token |-> token]

\* POST /login: the checks, await prisma.user.findFirst, await comparePassword
\* (the second Rejects is bcrypt's), jwt.sign
Login(s) ==
  /\ CanStart(s)
  /\ started' = started + 1
  /\ UNCHANGED <<users, codes, now, ticks, audit>>
  /\ \E body \in LoginBodies :
       LET r == Received("login", body) IN
       IF LoginValidation(body) # 0
       THEN /\ Settle(s, Throw(r, HttpError("missing fields", LoginValidation(body))))
            /\ UNCHANGED <<failures, tokens>>
       ELSE \/ /\ Rejects(s, r)
               /\ UNCHANGED tokens
            \/ /\ UserByEmail(body.email) # {NoUser}
               /\ Rejects(s, r)
               /\ UNCHANGED tokens
            \/ /\ UNCHANGED failures
               /\ \E user \in UserByEmail(body.email) :
                    IF user.id = 0
                    THEN /\ Settle(s, Throw(r, HttpError("doesn't exists", 404)))
                         /\ UNCHANGED tokens
                    ELSE IF ~comparePassword(body.password, user.password)
                    THEN /\ Settle(s, Throw(r, HttpError("password doesn't match", 409)))
                         /\ UNCHANGED tokens
                    ELSE /\ tokens' = tokens \cup {SignToken(user, now)}
                         /\ Settle(s, Respond(r, 200, LoginOut(user, SignToken(user, now)), "loggedIn"))

-----------------------------------------------------------------------------
(* currentUser *)

\* the Authorization headers a client can send
Headers == BadHeaders \cup { Bearer(t) : t \in tokens }

\* GET /current-user: validateToken, then await prisma.user.findFirst
CurrentUser(s) ==
  /\ CanStart(s)
  /\ started' = started + 1
  /\ UNCHANGED <<users, codes, now, ticks, audit, tokens>>
  /\ \E header \in Headers :
       LET r == Received("currentUser", [header |-> header]) IN
       IF validateToken(header, now) # 0
       THEN /\ Settle(s, Throw(r, HttpError("token", validateToken(header, now))))
            /\ UNCHANGED failures
       ELSE IF header.token.email = <<>>
       THEN /\ Settle(s, Throw(r, HttpError("invalid token payload", 400)))
            /\ UNCHANGED failures
       ELSE \/ Rejects(s, r)
            \/ /\ UNCHANGED failures
               /\ \E user \in UserByEmail(header.token.email) :
                    Settle(s, IF user.id = 0 THEN Throw(r, HttpError("doesn't exist", 404))
                              ELSE Respond(r, 200, user, "found"))

-----------------------------------------------------------------------------
(* changePassword *)

ChangeBodies ==
  { [currentPassword |-> "pass1", newPassword |-> "pass9", confirmPassword |-> "pass9"],
    [currentPassword |-> "pass2", newPassword |-> "pass9", confirmPassword |-> "pass9"],
    [currentPassword |-> "",      newPassword |-> "pass9", confirmPassword |-> "pass9"],
    [currentPassword |-> "pass1", newPassword |-> "abc",   confirmPassword |-> "abc"],
    [currentPassword |-> "pass1", newPassword |-> "pass1", confirmPassword |-> "pass1"],
    [currentPassword |-> "pass1", newPassword |-> "pass9", confirmPassword |-> "pass8"] }

\* mutant: the confirmation is not compared with the new password
ChangeValidationNoConfirm(body, userInfo) ==
  IF body.currentPassword = "" \/ body.newPassword = "" \/ body.confirmPassword = ""
  THEN 404
  ELSE IF userInfo.email = <<>> THEN 400
  ELSE IF Len(body.newPassword) < MinLength THEN 400
  ELSE IF body.currentPassword = body.newPassword THEN 400
  ELSE 0

\* the checks before the first storage call; 0 when they pass
ChangeValidation(body, userInfo) ==
  IF body.currentPassword = "" \/ body.newPassword = "" \/ body.confirmPassword = ""
  THEN 404
  ELSE IF userInfo.email = <<>> THEN 400
  ELSE IF Len(body.newPassword) < MinLength THEN 400
  ELSE IF body.currentPassword = body.newPassword THEN 400
  ELSE IF body.newPassword # body.confirmPassword THEN 400
  ELSE 0

\* mutant: an expired code is returned as it is
ChangeAfterCodeNeverRefreshes(r, entry, secret, currentTime) ==
  IF entry.id # 0
  THEN Respond([r EXCEPT !.entry = entry, !.t = currentTime], 200,
               CodeOut(r.user.email, "PasswordChange", entry), "reminded")
  ELSE [r EXCEPT !.pc = "cp_createCode", !.t = currentTime, !.secret = secret]

\* mutant: changePassword returns a code whose expiration is the current time
ChangeAfterCodeInclusive(r, entry, secret, currentTime) ==
  IF entry.id # 0
  THEN IF entry.expiration_time >= currentTime
       THEN Respond([r EXCEPT !.entry = entry, !.t = currentTime], 200,
                    CodeOut(r.user.email, "PasswordChange", entry), "reminded")
       ELSE [r EXCEPT !.pc = "cp_updateCode", !.entry = entry,
                      !.t = currentTime, !.secret = secret]
  ELSE [r EXCEPT !.pc = "cp_createCode", !.t = currentTime, !.secret = secret]

\* from the result of prisma.verificationCode.findFirst to the next await
ChangeAfterCode(r, entry, secret, currentTime) ==
  IF entry.id # 0
  THEN IF StillValid(entry, currentTime)
       THEN Respond([r EXCEPT !.entry = entry, !.t = currentTime], 200,
                    CodeOut(r.user.email, "PasswordChange", entry), "reminded")
       ELSE [r EXCEPT !.pc = "cp_updateCode", !.entry = entry,
                      !.t = currentTime, !.secret = secret]
  ELSE [r EXCEPT !.pc = "cp_createCode", !.t = currentTime, !.secret = secret]

\* the requests a client can send to POST /change-password
ChangeInputs ==
  { [header |-> h, body |-> b] : h \in { Bearer(t) : t \in tokens }, b \in ChangeBodies }
  \cup { [header |-> h, body |-> b] : h \in BadHeaders,
           b \in { x \in ChangeBodies : ChangeValidation(x, [email |-> EmailA]) = 0
                                        /\ x.currentPassword = "pass1" } }

\* POST /change-password: validateToken, the checks, await prisma.user.findFirst,
\* await comparePassword (the second Rejects is bcrypt's)
ChangePasswordStart(s) ==
  /\ CanStart(s)
  /\ started' = started + 1
  /\ UNCHANGED <<users, codes, now, ticks, audit, tokens>>
  /\ \E input \in ChangeInputs :
       LET r == Received("changePassword", input)
           userInfo == input.header.token
       IN
       IF validateToken(input.header, now) # 0
       THEN /\ Settle(s, Throw(r, HttpError("token", validateToken(input.header, now))))
            /\ UNCHANGED failures
       ELSE IF ChangeValidation(input.body, userInfo) # 0
       THEN /\ Settle(s, Throw(r, HttpError("invalid input", ChangeValidation(input.body, userInfo))))
            /\ UNCHANGED failures
       ELSE \/ Rejects(s, r)
            \/ /\ UserByEmail(userInfo.email) # {NoUser}
               /\ Rejects(s, r)
            \/ /\ UNCHANGED failures
               /\ \E user \in UserByEmail(userInfo.email) :
                    Settle(s, IF user.id = 0 THEN Throw(r, HttpError("not found", 404))
                              ELSE IF ~comparePassword(input.body.currentPassword, user.password)
                              THEN Throw(r, HttpError("password is incorrect", 400))
                              ELSE [r EXCEPT !.pc = "cp_findCode", !.user = user])

\* await prisma.verificationCode.findFirst (unused PasswordChange code)
ChangeFindCode(s) ==
  /\ req[s].pc = "cp_findCode"
  /\ UNCHANGED <<users, codes, now, ticks, audit, tokens, started>>
  /\ \/ Rejects(s, req[s])
     \/ /\ UNCHANGED failures
        /\ \E entry \in UnusedPasswordChangeCode(req[s].user.username) :
           \E draws \in RandomDraws :
             Settle(s, ChangeAfterCode(req[s], entry, generateRandomSecret(draws), now))

\* await prisma.verificationCode.update (refresh), then res.status(200)
ChangeUpdateCode(s) ==
  /\ req[s].pc = "cp_updateCode"
  /\ UNCHANGED <<users, now, ticks, audit, tokens, started>>
  /\ \/ /\ Rejects(s, req[s])
        /\ UNCHANGED codes
     \/ /\ UNCHANGED failures
        /\ LET r == req[s]
               updated == RefreshedRow(codes[r.entry.id], r.secret, r.t)
           IN /\ codes' = [codes EXCEPT ![r.entry.id] = updated]
              /\ Settle(s, Respond(r, 200, CodeOut(r.user.email, "PasswordChange", updated), "refreshed"))

\* await prisma.verificationCode.create, then res.status(201) with type "Register"
ChangeCreateCode(s) ==
  /\ req[s].pc = "cp_createCode"
  /\ UNCHANGED <<users, now, ticks, audit, tokens, started>>
  /\ \/ /\ Rejects(s, req[s])
        /\ UNCHANGED codes
     \/ /\ UNCHANGED failures
        /\ LET r == req[s]
               row == NewCodeRow(Len(codes) + 1, r.user.id, "PasswordChange", r.secret, r.t)
           IN /\ codes' = Append(codes, row)
              /\ Settle(s, Respond(r, 201, CodeOut(r.user.email, "Register", row), "created"))

-----------------------------------------------------------------------------
(* register of controllers/userController.ts *)

\* where: { user: { username, verified: false } }: no filter on type or used
CodeOfUnverified(username) ==
  FirstOf({ c \in CodeRows : /\ Owner(c).username = username
                             /\ Owner(c).verified = FALSE }, NoCode)

\* { ...existingUser, code, expiration_time }
UserOut(user, row) ==
  [user |-> user, code |-> row.code, expiration_time |-> row.expiration_time]

\* mutant: an email match alone is not a conflict
UserRegisterAfterCodeUsernameOnly(r, entry, secret, currentTime) ==
  IF entry.id = 0
  THEN IF r.user.username = r.body.username
       THEN Throw(r, HttpError("already exists", 409))
       ELSE [r EXCEPT !.pc = "ureg_createUser"]
  ELSE IF entry.expiration_time > currentTime
       THEN Respond([r EXCEPT !.entry = entry, !.t = currentTime], 200,
                    UserOut(r.user, entry), "reminded")
       ELSE [r EXCEPT !.pc = "ureg_updateCode", !.entry = entry,
                      !.t = currentTime, !.secret = secret]

\* from the result of prisma.verificationCode.findFirst to the next await
UserRegisterAfterCode(r, entry, secret, currentTime) ==
  IF entry.id = 0
  THEN IF r.user.username = r.body.username
       THEN Throw(r, HttpError("already exists", 409))
       ELSE IF r.user.email = r.body.email
       THEN Throw(r, HttpError("already in use", 409))
       ELSE [r EXCEPT !.pc = "ureg_createUser"]
  ELSE IF entry.expiration_time > currentTime
       THEN Respond([r EXCEPT !.entry = entry, !.t = currentTime], 200,
                    UserOut(r.user, entry), "reminded")
       ELSE [r EXCEPT !.pc = "ureg_updateCode", !.entry = entry,
                      !.t = currentTime, !.secret = secret]

\* request bodies of userController's register
UserRegisterBodies ==
  { [username |-> "alice", password |-> "pass1", email |-> EmailA],
    [username |-> "bobby", password |-> "pass2", email |-> EmailB],
    [username |-> "alice", password |-> "pass1", email |-> EmailB],
    [username |-> "bob",   password |-> "pass1", email |-> EmailA] }

\* the request arrives: the checks, await prisma.user.findFirst and, for a
\* new user, await hashPassword
UserRegisterStart(s) ==
  /\ CanStart(s)
  /\ started' = started + 1
  /\ UNCHANGED <<users, codes, now, ticks, audit, tokens>>
  /\ \E body \in UserRegisterBodies :
       LET r == Received("userRegister", body) IN
       IF RegisterChecks(body).statusCode # 0
       THEN /\ Settle(s, Throw(r, RegisterChecks(body)))
            /\ UNCHANGED failures
       ELSE \/ Rejects(s, r)
            \/ /\ UNCHANGED failures
               /\ \E existingUser \in UserByUsernameOrEmail(body.username, body.email) :
                    Settle(s, IF existingUser.id # 0
                              THEN [r EXCEPT !.pc = "ureg_findCode", !.user = existingUser]
                              ELSE [r EXCEPT !.pc = "ureg_createUser"])

\* await prisma.verificationCode.findFirst
UserRegisterFindCode(s) ==
  /\ req[s].pc = "ureg_findCode"
  /\ UNCHANGED <<users, codes, now, ticks, audit, tokens, started>>
  /\ \/ Rejects(s, req[s])
     \/ /\ UNCHANGED failures
        /\ \E entry \in CodeOfUnverified(req[s].body.username) :
           \E draws \in RandomDraws :
             Settle(s, UserRegisterAfterCode(req[s], entry, generateRandomSecret(draws), now))

\* await prisma.verificationCode.update, then res.status(200)
UserRegisterUpdateCode(s) ==
  /\ req[s].pc = "ureg_updateCode"
  /\ UNCHANGED <<users, now, ticks, audit, tokens, started>>
  /\ \/ /\ Rejects(s, req[s])
        /\ UNCHANGED codes
     \/ /\ UNCHANGED failures
        /\ LET r == req[s]
               updated == RefreshedRow(codes[r.entry.id], r.secret, r.t)
           IN /\ codes' = [codes EXCEPT ![r.entry.id] = updated]
              /\ Settle(s, Respond(r, 200, UserOut(r.user, updated), "refreshed"))

\* await prisma.user.create, then prisma.verificationCode.create is issued
UserRegisterCreateUser(s) ==
  /\ req[s].pc = "ureg_createUser"
  /\ UNCHANGED <<codes, now, ticks, audit, tokens, started>>
  /\ LET r == req[s] IN
     \/ /\ Rejects(s, r)
        /\ UNCHANGED users
     \/ /\ UniqueViolation(r.body.username, r.body.email)
        /\ Settle(s, Throw(r, PlainError))
        /\ UNCHANGED <<users, failures>>
     \/ /\ ~UniqueViolation(r.body.username, r.body.email)
        /\ UNCHANGED failures
        /\ LET newUser == NewUserRow(Len(users) + 1, r.body.username, r.body.email,
                                     hashPassword(r.body.password))
           IN /\ users' = Append(users, newUser)
              /\ \E draws \in RandomDraws :
                   Settle(s, [r EXCEPT !.pc = "ureg_createCode", !.newUser = newUser,
                                       !.t = now, !.secret = generateRandomSecret(draws)])

\* await prisma.verificationCode.create: its data has no `type`, a column the
\* schema requires and gives no default, so the call rejects and the error
\* goes to next(error)
UserRegisterCreateCode(s) ==
  /\ req[s].pc = "ureg_createCode"
  /\ UNCHANGED <<users, codes, now, ticks, audit, tokens, started, failures>>
  /\ Settle(s, Throw(req[s], PlainError))

-----------------------------------------------------------------------------
(* The clock and the system *)

\* time passes: by the lifetime of a code, or by the lifetime of a token
TickSteps == {CodeWindow, TokenTTL}

Tick ==
  /\ ticks < MaxTicks
  /\ ticks' = ticks + 1
  /\ \E d \in TickSteps : now' = now + d
  /\ resp' = NoResp
  /\ UNCHANGED <<users, codes, tokens, req, audit, started, failures>>

Init ==
  /\ users = <<>>
  /\ codes = <<>>
  /\ now = 0
  /\ ticks = 0
  /\ tokens = {}
  /\ req = [s \in Slots |-> Idle]
  /\ resp = NoResp
  /\ audit = [e \in {EmailA, EmailB} |-> [flips |-> 0, ok |-> 0, mismatch |-> 0]]
  /\ started = 0
  /\ failures = 0

Next ==
  \/ Tick
  \/ \E s \in Slots :
       \/ RegisterStart(s)
       \/ RegisterFindCode(s)
       \/ RegisterUpdateCode(s)
       \/ RegisterCreateUser(s)
       \/ RegisterCreateCode(s)
       \/ VerifyStart(s)
       \/ VerifyFindCode(s)
       \/ VerifyUpdateCode(s)
       \/ VerifyUpdateUser(s)
       \/ Login(s)
       \/ CurrentUser(s)
       \/ ChangePasswordStart(s)
       \/ ChangeFindCode(s)
       \/ ChangeUpdateCode(s)
       \/ ChangeCreateCode(s)

Spec == Init /\ [][Next]_vars

\* requests that do not overlap in time: a request is received only when no
\* other request is running, so every request runs in slot 1
NextSeq ==
  \/ Tick
  \/ \E s \in {1} :
       \/ RegisterStart(s)
       \/ RegisterFindCode(s)
       \/ RegisterUpdateCode(s)
       \/ RegisterCreateUser(s)
       \/ RegisterCreateCode(s)
       \/ VerifyStart(s)
       \/ VerifyFindCode(s)
       \/ VerifyUpdateCode(s)
       \/ VerifyUpdateUser(s)
       \/ Login(s)
       \/ CurrentUser(s)
       \/ ChangePasswordStart(s)
       \/ ChangeFindCode(s)
       \/ ChangeUpdateCode(s)
       \/ ChangeCreateCode(s)

SpecSeq == Init /\ [][NextSeq]_vars

\* the application that mounts userController's register over the same
\* tables, with the register and verifyRegistration of authController
NextUser ==
  \/ Tick
  \/ \E s \in Slots :
       \/ UserRegisterStart(s)
       \/ UserRegisterFindCode(s)
       \/ UserRegisterUpdateCode(s)
       \/ UserRegisterCreateUser(s)
       \/ UserRegisterCreateCode(s)
       \/ RegisterStart(s)
       \/ RegisterFindCode(s)
       \/ RegisterUpdateCode(s)
       \/ RegisterCreateUser(s)
       \/ RegisterCreateCode(s)
       \/ VerifyStart(s)
       \/ VerifyFindCode(s)
       \/ VerifyUpdateCode(s)
       \/ VerifyUpdateUser(s)

SpecUser == Init /\ [][NextUser]_vars

-----------------------------------------------------------------------------
(* Properties.  resp holds the request that ended in the last step: its    *)
(* input (body), the handler's locals when it ended (user, newUser, entry, *)
(* updatedEntry, t, secret), the status and body sent, and the tables      *)
(* before that step.                                                       *)

\* the register request that just ended found an unverified user carrying
\* both the username and the email of the request
ResumesRegistration ==
  /\ resp.op = "register"
  /\ resp.user.id # 0
  /\ resp.user.verified = FALSE
  /\ resp.user.username = resp.body.username
  /\ resp.user.email = resp.body.email

\* C1: a register request that found no user and ends with 201 has added
\* exactly one user row (verified = false, the request's username and email)
\* and, in its last step, exactly one code row owned by that user with type
\* Register, used = false and expiration_time = the time it read + 1 minute;
\* the response carries that row's code and expiration_time.  A request
\* that found no user ends with 201 unless a storage or bcrypt call rejects.
C1_RegisterCreatesUserAndCode ==
  (resp.op = "register" /\ RegisterValidation(resp.body) = 0 /\ resp.user.id = 0) =>
    /\ resp.status \in {201, 500}
    /\ resp.status = 201 =>
         LET row == codes[Len(codes)] IN
         /\ resp.via = "created"
         /\ codes = Append(resp.before.codes, row)
         /\ users = resp.before.users
         /\ row.id = Len(codes)
         /\ row.user_id = resp.newUser.id
         /\ row.type = "Register"
         /\ row.used = FALSE
         /\ row.code = resp.secret
         /\ row.expiration_time = resp.t + CodeWindow
         /\ resp.t <= now
         /\ resp.out.code = row.code
         /\ resp.out.expiration_time = row.expiration_time
         /\ resp.out.email = resp.body.email
         /\ users[resp.newUser.id].username = resp.body.username
         /\ users[resp.newUser.id].email = resp.body.email
         /\ users[resp.newUser.id].verified = FALSE
         /\ Cardinality({ i \in 1..Len(users) :
               users[i].username = resp.body.username
               \/ users[i].email = resp.body.email }) = 1
         /\ Cardinality({ c \in CodeRows :
               c.user_id = resp.newUser.id /\ c.type = "Register" }) = 1

C1_Witness ==
  /\ resp.op = "register"
  /\ resp.status = 201
  /\ Len(codes) = Len(resp.before.codes) + 1

\* C2: a register request that finds the unverified user's Register code
\* unused with expiration_time > the current time responds 200 with the code
\* and expiration_time of the stored row and writes nothing: both tables are
\* as before, the row (updated_at included) is the row that was read.
C2_ReRegisterBeforeExpiry ==
  /\ (resp.op = "register" /\ resp.entry.id # 0 /\ ~resp.entry.used
        /\ resp.entry.expiration_time > resp.t /\ resp.via # "error") =>
       /\ resp.via = "reminded"
       /\ resp.status = 200
  /\ (resp.op = "register" /\ resp.via = "reminded") =>
       /\ resp.status = 200
       /\ resp.t = now
       /\ resp.entry.used = FALSE
       /\ resp.entry.type = "Register"
       /\ resp.entry.expiration_time > now
       /\ resp.out.code = resp.entry.code
       /\ resp.out.expiration_time = resp.entry.expiration_time
       /\ codes = resp.before.codes
       /\ users = resp.before.users
       /\ codes[resp.entry.id] = resp.entry
       /\ Owner(resp.entry).verified = FALSE
       /\ Owner(resp.entry).username = resp.body.username

C2_Witness ==
  /\ ResumesRegistration
  /\ resp.via = "reminded"
  /\ resp.out.code = codes[resp.entry.id].code

\* C3: a register request that finds the unverified user's Register code
\* unused with expiration_time <= the current time overwrites code and
\* expiration_time (= that time + 1 minute) on the same row: id, owner and
\* type are those of the row read, used is false, no row is added and no
\* other row changes; the response is 200 with the refreshed code and
\* expiration_time.  Such a request ends this way unless a storage call rejects.
C3_RefreshInPlace ==
  /\ (resp.op = "register" /\ resp.entry.id # 0 /\ ~resp.entry.used
        /\ resp.entry.expiration_time <= resp.t) =>
       /\ resp.status \in {200, 500}
       /\ resp.status = 200 => resp.via = "refreshed"
  /\ (resp.op = "register" /\ resp.via = "refreshed") =>
       LET row == codes[resp.entry.id] IN
       /\ resp.status = 200
       /\ resp.entry.used = FALSE
       /\ resp.entry.expiration_time <= resp.t
       /\ Len(codes) = Len(resp.before.codes)
       /\ \A i \in 1..Len(codes) : i # resp.entry.id => codes[i] = resp.before.codes[i]
       /\ users = resp.before.users
       /\ row.id = resp.entry.id
       /\ row.user_id = resp.entry.user_id
       /\ row.type = "Register"
       /\ row.used = FALSE
       /\ row.code = resp.secret
       /\ row.expiration_time = resp.t + CodeWindow
       /\ row.updated_at = resp.t
       /\ resp.out.code = row.code
       /\ resp.out.expiration_time = row.expiration_time

C3_Witness ==
  /\ ResumesRegistration
  /\ resp.via = "refreshed"
  /\ resp.before.codes[resp.entry.id] = resp.entry
  /\ codes[resp.entry.id].expiration_time > resp.entry.expiration_time

\* C4 as stated: re-registering after expiry returns a code different from
\* the one that was stored.
C4_RefreshedCodeDiffers ==
  (resp.op = "register" /\ resp.via = "refreshed") =>
    resp.out.code # resp.entry.code

\* C5: a verifyRegistration request that ends with 200 has set used = true
\* on the Register code row whose code equals the supplied code, has set the
\* user's verified = true, and responds with the updated user and a token
\* signed over {userId, email} of that user that expires one hour later.
\* A request that passed the checks ends with 200 unless a storage call rejects.
C5_VerifyConsumesAndVerifies ==
  /\ (resp.op = "verify" /\ resp.user.id # 0 /\ ~resp.user.verified
        /\ resp.entry.id # 0 /\ resp.entry.code = resp.body.code
        /\ ~resp.entry.used) =>
       resp.status \in {200, 500}
  /\ (resp.op = "verify" /\ resp.status = 200) =>
       LET user == users[resp.user.id] IN
       /\ resp.via = "verified"
       /\ resp.user.verified = FALSE
       /\ resp.user.email = resp.body.email
       /\ resp.entry.type = "Register"
       /\ resp.entry.user_id = resp.user.id
       /\ resp.entry.code = resp.body.code
       /\ resp.entry.used = FALSE
       /\ resp.updatedEntry.id = resp.entry.id
       /\ resp.updatedEntry.used = TRUE
       /\ user.verified = TRUE
       /\ user = [resp.user EXCEPT !.verified = TRUE]
       /\ codes = resp.before.codes
       /\ resp.out.user = user
       /\ resp.out.token = [userId |-> user.id, email |-> user.email,
                            exp |-> now + TokenTTL]
       /\ resp.out.token \in tokens

C5_Witness ==
  /\ resp.op = "verify"
  /\ resp.status = 200
  /\ users[resp.user.id].verified
  /\ codes[resp.entry.id] = resp.updatedEntry
  /\ resp.updatedEntry.code = resp.body.code

\* C6 as stated: once a code row has used = true, no later state has that
\* row with used = false.
C6_UsedIsMonotonic ==
  [][ \A i \in 1..Len(codes) : codes[i].used => codes'[i].used ]_vars

\* C7 as stated: when no request is running, no Register code is used while
\* its owner is unverified.
C7_ConsumedImpliesVerified ==
  (\A s \in Slots : ~Running(s)) =>
    \A c \in CodeRows : (c.type = "Register" /\ c.used) => Owner(c).verified

\* C8 as stated: for every user, verified goes from false to true at most
\* once and at most one verifyRegistration request ends with 200.
C8_VerifiedOnce ==
  \A e \in DOMAIN audit : audit[e].flips <= 1 /\ audit[e].ok <= 1

\* C9 as stated: at most one code row with used = false for each
\* (user, purpose) pair.
C9_OneUnusedCodePerPurpose ==
  \A c, d \in CodeRows :
    (c.user_id = d.user_id /\ c.type = d.type /\ ~c.used /\ ~d.used) => c = d

\* C10 as stated: register with the username and email of an existing
\* unverified user never fails with a conflict and responds with a live or
\* refreshed Register code of that user (a rejected storage call aside).
C10_ResumeAlwaysAnswers ==
  (ResumesRegistration /\ resp.status # 500) =>
    /\ resp.status = 200
    /\ \E c \in CodeRows :
         /\ c.user_id = resp.user.id
         /\ c.type = "Register"
         /\ c.code = resp.out.code
         /\ c.expiration_time > resp.t

\* C11: a register request that finds, for its username, the Register code
\* row of an unverified user with used = true fails with 409 (the code is
\* already used) and writes nothing: the code row and the user are as before.
C11_UsedCodeConflict ==
  (resp.op = "register" /\ resp.entry.id # 0 /\ resp.entry.used) =>
    /\ resp.status = 409
    /\ resp.out.message = "code is already used"
    /\ resp.user.id # 0
    /\ resp.user.verified = FALSE
    /\ resp.entry.type = "Register"
    /\ Owner(resp.entry).username = resp.body.username
    /\ Owner(resp.entry).verified = FALSE
    /\ codes = resp.before.codes
    /\ users = resp.before.users
    /\ codes[resp.entry.id] = resp.entry

C11_Witness ==
  /\ resp.op = "register"
  /\ resp.status = 409
  /\ resp.entry.id # 0
  /\ codes[resp.entry.id].used
  /\ Owner(resp.entry).verified = FALSE
  /\ Owner(resp.entry).email = resp.body.email

\* C12 as stated, in the case where the lookup returned a user other than
\* the verified one: a register request whose username or email belongs to a
\* verified user fails with 409 and changes nothing (a rejected storage call
\* aside).
C12_VerifiedAlwaysConflicts ==
  (/\ resp.op = "register"
   /\ RegisterValidation(resp.body) = 0
   /\ resp.status # 500
   /\ resp.user.id # 0
   /\ \E v \in UserRows :
        /\ v.verified
        /\ v.id # resp.user.id
        /\ v.username = resp.body.username \/ v.email = resp.body.email) =>
    /\ resp.status = 409
    /\ codes = resp.before.codes
    /\ users = resp.before.users

\* a verifyRegistration request with both fields whose user lookup ran after
\* a verifyRegistration for the same email had succeeded
VerifiesAgain ==
  /\ resp.op = "verify"
  /\ VerifyValidation(resp.body) = 0
  /\ audit[resp.body.email].ok > 0
  /\ ~(resp.user.id # 0 /\ ~resp.user.verified)

\* C13: after a verifyRegistration for a user has succeeded, every later
\* verifyRegistration for that user, whatever code it carries, fails with
\* the already-verified error (400) and changes nothing in the store (500
\* when the user lookup itself rejects).
C13_VerifyAgainAlreadyVerified ==
  VerifiesAgain =>
    /\ resp.status \in {400, 500}
    /\ resp.status = 500 => failures > 0
    /\ resp.status = 400 =>
         /\ resp.out.message = "is already verified"
         /\ resp.user.verified
         /\ resp.user.email = resp.body.email
    /\ codes = resp.before.codes
    /\ users = resp.before.users
    /\ \A u \in UserRows : u.email = resp.body.email => u.verified

C13_Witness ==
  /\ VerifiesAgain
  /\ resp.status = 400
  /\ resp.out.message = "is already verified"
  /\ \E c \in CodeRows : Owner(c).email = resp.body.email /\ c.code # resp.body.code

\* the third request of: register, verify with the returned code (success),
\* verify again with the same email and the same code
VerifiesAgainWithSameCode ==
  /\ VerifiesAgain
  /\ resp.status # 500
  /\ \E c \in CodeRows :
       /\ c.type = "Register"
       /\ c.used
       /\ Owner(c).email = resp.body.email
       /\ c.code = resp.body.code

\* C14 as stated: the second verify with the same email and code fails with
\* the code-already-used error.
C14_SecondVerifyCodeUsed ==
  VerifiesAgainWithSameCode => resp.out.message = "is already used"

\* C14 amended: the second verify with the same email and code fails with
\* the already-verified error (400); the used flag of the code is not
\* reached.
C14_SecondVerifyAlreadyVerified ==
  VerifiesAgainWithSameCode =>
    /\ resp.status = 400
    /\ resp.out.message = "is already verified"
    /\ resp.entry = NoCode

C14_Witness ==
  /\ VerifiesAgainWithSameCode
  /\ resp.status = 400
  /\ resp.user.verified
  /\ audit[resp.body.email].ok = 1

\* C15 as stated: for an unverified user whose Register code row has
\* used = true, verifyRegistration fails with the code-already-used error
\* whatever code is supplied, never with the code-mismatch error.
C15_UsedBeforeMismatch ==
  (/\ resp.op = "verify"
   /\ resp.user.id # 0
   /\ resp.user.verified = FALSE
   /\ resp.entry.id # 0
   /\ resp.entry.used) =>
    /\ resp.status = 400
    /\ resp.out.message = "is already used"

\* C16: a verifyRegistration request that finds the unverified user's
\* Register code row unused and carries a code different from the stored one
\* fails with the code-mismatch error (400) and writes nothing: the row is
\* still unused and the user still unverified.  (That the user can verify
\* afterwards with the correct code is what C16_Witness reaches.)
C16_MismatchLeavesCodeUsable ==
  /\ (/\ resp.op = "verify"
      /\ resp.entry.id # 0
      /\ resp.entry.used = FALSE
      /\ resp.entry.code # resp.body.code
      /\ Owner(resp.entry).verified = FALSE) =>
       /\ resp.status = 400
       /\ resp.out.message = "doesn't match"
       /\ codes = resp.before.codes
       /\ users = resp.before.users
       /\ codes[resp.entry.id] = resp.entry
       /\ codes[resp.entry.id].used = FALSE
       /\ users[resp.user.id].verified = FALSE
       /\ audit[resp.body.email].mismatch = 1
  /\ \A e \in DOMAIN audit :
       audit[e].mismatch = 1 => \E u \in UserRows : u.email = e

C16_Witness ==
  /\ resp.op = "verify"
  /\ resp.status = 200
  /\ audit[resp.body.email].mismatch = 1
  /\ audit[resp.body.email].ok = 1
  /\ failures = 0
  /\ users[resp.user.id].verified

\* C17: expiration is not checked at consumption.  A verifyRegistration
\* request that finds the unverified user's Register code row unused with
\* the supplied code succeeds (200, the row set used, the user verified)
\* both when expiration_time > the time it read and when expiration_time <=
\* that time; it ends otherwise only when a storage call rejects.
C17_ExpiryNotCheckedAtConsumption ==
  \A expired \in BOOLEAN :
    (/\ resp.op = "verify"
     /\ resp.user.id # 0
     /\ resp.user.verified = FALSE
     /\ resp.entry.id # 0
     /\ resp.entry.used = FALSE
     /\ resp.entry.code = resp.body.code
     /\ (resp.entry.expiration_time <= resp.t) = expired) =>
      /\ resp.status \in {200, 500}
      /\ resp.status = 500 => (resp.out.message = "rejected" /\ failures > 0)
      /\ resp.status = 200 =>
           /\ resp.updatedEntry.id = resp.entry.id
           /\ resp.updatedEntry.used
           /\ users[resp.user.id].verified
           /\ resp.out.user.verified

C17_Witness ==
  /\ resp.op = "verify"
  /\ resp.status = 200
  /\ resp.entry.code = resp.body.code
  /\ resp.entry.expiration_time <= resp.t
  /\ codes[resp.entry.id].expiration_time <= now
  /\ users[resp.user.id].verified

\* C18: when requests do not overlap in time (storage calls may still
\* reject), every user with verified = true owns a Register code row with
\* used = true.
C18_VerifiedOwnsUsedCode ==
  \A u \in UserRows :
    u.verified => \E c \in CodeRows :
                    c.user_id = u.id /\ c.type = "Register" /\ c.used

C18_Witness ==
  /\ resp.op = "verify"
  /\ resp.status = 200
  /\ failures > 0
  /\ \A s \in Slots : ~Running(s)
  /\ users[resp.user.id].verified
  /\ codes[resp.entry.id].used
  /\ codes[resp.entry.id].user_id = resp.user.id

\* C19: the user state machine is one-way.  In every step of every
\* execution, a user row with verified = true keeps verified = true (and no
\* user row disappears).
C19_VerifiedIsOneWay ==
  [][ /\ Len(users') >= Len(users)
      /\ \A i \in 1..Len(users) : users[i].verified => users'[i].verified ]_vars

C19_Witness ==
  /\ resp.op = "verify"
  /\ resp.status = 200
  /\ audit[resp.body.email].ok = 2
  /\ audit[resp.body.email].flips = 1
  /\ resp.before.users[resp.user.id].verified
  /\ users[resp.user.id].verified

\* C20: login answers 200 with a token only when a user with the given
\* email exists and the supplied password verifies against that user's
\* stored hash; the token is signed over that user's {userId, email} and the
\* user is returned with it.  With both fields present, a missing user
\* yields 404 and a password mismatch 409, both without a token (500 when
\* the lookup or bcrypt rejects).
C20_LoginIssuesTokenOnFullMatch ==
  resp.op = "login" =>
    LET matches == { u \in UserRows : u.email = resp.body.email } IN
    /\ resp.status \in {200, 404, 409, 500}
    /\ resp.status = 200 =>
         /\ resp.out.user \in matches
         /\ comparePassword(resp.body.password, resp.out.user.password)
         /\ resp.out.user.password = hashPassword(resp.body.password)
         /\ resp.out.token = [userId |-> resp.out.user.id,
                              email |-> resp.out.user.email,
                              exp |-> now + TokenTTL]
         /\ resp.out.token \in tokens
    /\ resp.status # 200 => "token" \notin DOMAIN resp.out
    /\ (LoginValidation(resp.body) = 0 /\ resp.status # 500) =>
         /\ matches = {} => resp.status = 404
         /\ (\E u \in matches : ~comparePassword(resp.body.password, u.password)) =>
              resp.status = 409
         /\ (\E u \in matches : comparePassword(resp.body.password, u.password)) =>
              resp.status = 200
    /\ resp.status = 500 => failures > 0
    /\ codes = resp.before.codes
    /\ users = resp.before.users

C20_Witness ==
  /\ resp.op = "login"
  /\ resp.status = 200
  /\ resp.out.token \in tokens
  /\ resp.out.token.userId = resp.out.user.id
  /\ \E u \in UserRows : u.email = resp.body.email /\ u.id = resp.out.token.userId

\* the message of the error that ended the last request, "" when it ended
\* without an error
ErrorMessage ==
  IF resp.via = "error" /\ "message" \in DOMAIN resp.out THEN resp.out.message ELSE ""

\* a changePassword request whose token validateToken accepted when it arrived
\* has ended; Fields is its body
ChangeEnded == resp.op = "changePassword" /\ ErrorMessage # "token"

Fields == resp.body.body

\* the conditions of C21 on the body
FieldsPass ==
  /\ Fields.currentPassword # ""
  /\ Fields.newPassword # ""
  /\ Fields.confirmPassword # ""
  /\ Len(Fields.newPassword) >= 4
  /\ Fields.newPassword # Fields.currentPassword
  /\ Fields.newPassword = Fields.confirmPassword

\* C21: changePassword creates or refreshes a PasswordChange code only when
\* all three fields are present, the new password has length >= 4, differs
\* from the current one and equals the confirmation, a user exists for the
\* token's email and the current password verifies against the stored hash.
\* In every other case it ends with an error, 404 for missing fields or a
\* missing user and 400 otherwise, and it never writes the user table; the
\* code table changes only in the step that ends a request with 200 or 201.
C21_ChangePasswordGuards ==
  resp.op = "changePassword" =>
    LET owners == { u \in UserRows : u.email = resp.body.header.token.email } IN
    /\ users = resp.before.users
    /\ codes # resp.before.codes => resp.status \in {200, 201}
    /\ (resp.status \in {200, 201} \/ resp.user.id # 0) =>
         /\ FieldsPass
         /\ \E u \in owners : u.id = resp.user.id /\ u.password = resp.user.password
         /\ resp.user.password = hashPassword(Fields.currentPassword)
    /\ (ChangeEnded /\ resp.user.id = 0 /\ resp.status # 500) =>
         /\ resp.via = "error"
         /\ codes = resp.before.codes
         /\ resp.status =
              IF Fields.currentPassword = "" \/ Fields.newPassword = ""
                 \/ Fields.confirmPassword = "" THEN 404
              ELSE IF ~FieldsPass THEN 400
              ELSE IF owners = {} THEN 404
              ELSE 400
         /\ (FieldsPass /\ owners # {}) =>
              \E u \in owners : u.password # hashPassword(Fields.currentPassword)

C21_Witness ==
  /\ ChangeEnded
  /\ resp.status = 400
  /\ Fields.newPassword # Fields.confirmPassword
  /\ Len(Fields.newPassword) >= 4
  /\ \E u \in UserRows : /\ u.email = resp.body.header.token.email
                         /\ u.password = hashPassword(Fields.currentPassword)
  /\ codes = resp.before.codes

\* C22: after its checks pass, changePassword resolves the PasswordChange
\* code as register does.  The lookup finds no unused row: a new row (type
\* PasswordChange, used = false, expiration = the time read + 1 minute) is
\* appended and the status is 201.  It finds an unused row with
\* expiration_time > the time read: that row is returned with 200 and nothing
\* is written.  It finds an unused row with expiration_time <= that time: the
\* same row gets a new code and expiration and the status is 200.  (500 when
\* a storage call rejects.)
C22_ChangePasswordResolvesCode ==
  (resp.op = "changePassword" /\ resp.user.id # 0 /\ resp.status # 500) =>
    /\ resp.entry.id = 0 =>
         LET row == codes[Len(codes)] IN
         /\ resp.status = 201
         /\ resp.via = "created"
         /\ codes = Append(resp.before.codes, row)
         /\ row = [id |-> Len(codes), user_id |-> resp.user.id,
                   type |-> "PasswordChange", code |-> resp.secret,
                   expiration_time |-> resp.t + 1, used |-> FALSE,
                   updated_at |-> resp.t]
         /\ resp.out.code = row.code
         /\ resp.out.expiration_time = row.expiration_time
    /\ (resp.entry.id # 0 /\ resp.entry.expiration_time > resp.t) =>
         /\ resp.status = 200
         /\ resp.via = "reminded"
         /\ codes = resp.before.codes
         /\ codes[resp.entry.id] = resp.entry
         /\ resp.out.code = resp.entry.code
         /\ resp.out.expiration_time = resp.entry.expiration_time
    /\ (resp.entry.id # 0 /\ resp.entry.expiration_time <= resp.t) =>
         LET row == codes[resp.entry.id] IN
         /\ resp.status = 200
         /\ resp.via = "refreshed"
         /\ Len(codes) = Len(resp.before.codes)
         /\ \A k \in 1..Len(codes) : k # resp.entry.id => codes[k] = resp.before.codes[k]
         /\ row = [resp.before.codes[resp.entry.id] EXCEPT
                     !.code = resp.secret, !.expiration_time = resp.t + 1,
                     !.used = FALSE, !.updated_at = resp.t]
         /\ resp.out.code = row.code
         /\ resp.out.expiration_time = row.expiration_time
    /\ resp.entry.id # 0 =>
         /\ resp.entry.type = "PasswordChange"
         /\ resp.entry.used = FALSE
         /\ resp.entry.user_id = resp.user.id
    /\ users = resp.before.users

C22_Witness ==
  /\ resp.op = "changePassword"
  /\ resp.via = "refreshed"
  /\ resp.status = 200
  /\ codes[resp.entry.id].id = resp.entry.id
  /\ codes[resp.entry.id].expiration_time > now
  /\ resp.entry.expiration_time <= now

\* C23: no step changes the email, the username or the password hash of an
\* existing user row, and no user row disappears; in particular no step of
\* changePassword writes the password.
C23_UserIdentityImmutable ==
  [][ /\ Len(users') >= Len(users)
      /\ \A k \in 1..Len(users) :
           /\ users'[k].id = users[k].id
           /\ users'[k].email = users[k].email
           /\ users'[k].username = users[k].username
           /\ users'[k].password = users[k].password ]_vars

C23_Witness ==
  /\ resp.op = "changePassword"
  /\ resp.status = 201
  /\ users[resp.user.id].verified
  /\ users[resp.user.id].password = hashPassword(Fields.currentPassword)
  /\ users[resp.user.id].password # hashPassword(Fields.newPassword)

\* the request that ended went through validateToken, with header Header
Guarded == resp.op \in {"changePassword", "currentUser"}

Header == resp.body.header

\* the request ended in the step in which it arrived
EndedOnArrival == resp.op = "currentUser" \/ resp.user.id = 0

\* C24: changePassword and currentUser run only after validateToken has
\* accepted the bearer token.  A missing or non-Bearer header and an expired
\* token end the request with 401, a token this server did not sign with 403,
\* in each case with the middleware's error, before the handler and with the
\* store unchanged; an accepted request is answered by the handler, which
\* works on the claims of the token.
C24_HandlersBehindValidateToken ==
  Guarded =>
    /\ (EndedOnArrival /\ Header.scheme # "Bearer") =>
         resp.status = 401 /\ ErrorMessage = "token"
    /\ (EndedOnArrival /\ Header.scheme = "Bearer" /\ Header.token \notin tokens) =>
         resp.status = 403 /\ ErrorMessage = "token"
    /\ (EndedOnArrival /\ Header.scheme = "Bearer" /\ Header.token \in tokens
          /\ now >= Header.token.exp) =>
         resp.status = 401 /\ ErrorMessage = "token"
    /\ ErrorMessage = "token" =>
         /\ resp.status \in {401, 403}
         /\ resp.via = "error"
         /\ resp.user = NoUser
         /\ codes = resp.before.codes
         /\ users = resp.before.users
    /\ ErrorMessage # "token" =>
         /\ Header.scheme = "Bearer"
         /\ Header.token \in tokens
         /\ EndedOnArrival => now < Header.token.exp
         /\ resp.user.id # 0 => resp.user.email = Header.token.email
         /\ (resp.op = "currentUser" /\ resp.status = 200) =>
              resp.out.email = Header.token.email

C24_Witness ==
  /\ resp.op = "changePassword"
  /\ resp.status = 401
  /\ Header.scheme = "Bearer"
  /\ Header.token \in tokens
  /\ now >= Header.token.exp
  /\ \E u \in UserRows : u.email = Header.token.email

\* C25: currentUser called with a token that login or verifyRegistration
\* issued and that has not expired answers 200 with the user the token was
\* issued to (same id, same email); it answers 404 only when no user has the
\* email of the token.  (500 when the lookup rejects.)
C25_CurrentUserReturnsTokenOwner ==
  (resp.op = "currentUser" /\ ErrorMessage # "token") =>
    /\ Header.token \in tokens
    /\ resp.status \in {200, 404, 500}
    /\ resp.status = 200 =>
         /\ resp.out.id = Header.token.userId
         /\ resp.out.email = Header.token.email
         /\ resp.out = users[Header.token.userId]
    /\ resp.status = 404 =>
         \A u \in UserRows : u.email # Header.token.email
    /\ (\E u \in UserRows : u.id = Header.token.userId) => resp.status # 404
    /\ users = resp.before.users
    /\ codes = resp.before.codes

C25_Witness ==
  /\ resp.op = "currentUser"
  /\ resp.status = 200
  /\ Len(users) = 2
  /\ resp.out.id = Header.token.userId
  /\ resp.out.id = 2

\* the register request that ended was rejected by the validation, with
\* message m and status s
RegisterRejected(m, s) ==
  /\ ErrorMessage = m
  /\ resp.status = s
  /\ resp.via = "error"
  /\ resp.user = NoUser
  /\ resp.entry = NoCode
  /\ users = resp.before.users
  /\ codes = resp.before.codes

\* C26: register validates before it touches the store, in a fixed order:
\* a missing field gives 404; otherwise a username shorter than 4 gives 400;
\* otherwise a password shorter than 4 gives 400; otherwise an email that
\* fails the format validation gives 400.  In each case the request ends
\* with that error with no storage read or write.  A request that passes
\* all four never ends with one of these errors.
C26_RegisterValidationOrder ==
  resp.op = "register" =>
    LET b == resp.body IN
    IF b.username = "" \/ b.password = "" \/ b.email = <<>>
      THEN RegisterRejected("missing fields", 404)
    ELSE IF Len(b.username) < 4
      THEN RegisterRejected("username too short", 400)
    ELSE IF Len(b.password) < 4
      THEN RegisterRejected("password too short", 400)
    ELSE IF ~emailValidator(b.email)
      THEN RegisterRejected("email format is invalid", 400)
    ELSE ErrorMessage \notin {"missing fields", "username too short",
                              "password too short", "email format is invalid"}

C26_Witness ==
  /\ resp.op = "register"
  /\ resp.body.username # ""
  /\ Len(resp.body.username) < 4
  /\ Len(resp.body.password) < 4
  /\ ~emailValidator(resp.body.email)
  /\ RegisterRejected("username too short", 400)
  /\ Len(users) > 0

\* the code rows that userController's lookup can return for the request
\* that ended, in the tables as they were before its last step
RowsOfUnverified ==
  { k \in 1..Len(resp.before.codes) :
      LET owner == resp.before.users[resp.before.codes[k].user_id] IN
      owner.username = resp.body.username /\ ~owner.verified }

\* C27: in userController's register, when a user with the request's
\* username or email exists and the lookup finds no code row of an unverified
\* user with the request's username, the request ends with 409 and creates
\* neither a user nor a code; a request that found a user never reaches the
\* two create calls.
C27_UserRegisterConflict ==
  /\ \A s \in Slots :
       (req[s].op = "userRegister" /\ req[s].user.id # 0) =>
          req[s].pc \in {"ureg_findCode", "ureg_updateCode"}
  /\ (resp.op = "userRegister" /\ resp.user.id # 0 /\ resp.entry.id = 0) =>
       /\ resp.via = "error"
       /\ users = resp.before.users
       /\ codes = resp.before.codes
       /\ resp.newUser = NoUser
       /\ \/ /\ resp.status = 409
             /\ RowsOfUnverified = {}
             /\ ErrorMessage = IF resp.user.username = resp.body.username
                               THEN "already exists" ELSE "already in use"
          \/ /\ resp.status = 500
             /\ ErrorMessage = "rejected"
             /\ failures > 0
  /\ (resp.op = "userRegister" /\ resp.user.id # 0 /\ resp.entry.id # 0
        /\ resp.pc = "done" /\ resp.via = "reminded") =>
       resp.entry.id \in RowsOfUnverified

C27_Witness ==
  /\ resp.op = "userRegister"
  /\ resp.status = 409
  /\ ErrorMessage = "already in use"
  /\ ~resp.user.verified
  /\ resp.user.username # resp.body.username
  /\ \E c \in CodeRows : c.user_id = resp.user.id
  /\ users = resp.before.users
  /\ codes = resp.before.codes

\* a code value as generateRandomSecret must produce it
SixDigits(code) ==
  /\ Len(code) = 6
  /\ \A k \in 1..Len(code) : code[k] \in Digits

\* C28: every code value stored in a code row or returned by register and
\* changePassword is a string of exactly 6 characters, each a decimal digit.
C28_CodesAreSixDigits ==
  /\ \A c \in CodeRows : SixDigits(c.code)
  /\ \A s \in Slots : req[s].secret # <<>> => SixDigits(req[s].secret)
  /\ (resp.op \in {"register", "changePassword"} /\ resp.status \in {200, 201}) =>
       SixDigits(resp.out.code)

C28_Witness ==
  /\ resp.op = "changePassword"
  /\ resp.status = 201
  /\ SixDigits(resp.out.code)
  /\ resp.out.code[6] = "7"
  /\ \E c \in CodeRows : c.type = "Register" /\ c.code[6] = "0"

\* C29 (does not hold): every request that ends has produced a response or
\* forwarded an error to the error handler.
C29_EveryRequestAnswers ==
  resp.pc = "done" => (resp.status # 0 /\ resp.via # "silent")

\* user row k is unverified, owns no unused Register row, and no running
\* request is past the lookups that would still write a Register row of k or
\* set k verified
Stuck(k) ==
  /\ k \in 1..Len(users)
  /\ ~users[k].verified
  /\ \A c \in CodeRows : (c.user_id = k /\ c.type = "Register") => c.used
  /\ \A s \in Slots :
       /\ ~(req[s].pc = "reg_createCode" /\ req[s].newUser.id = k)
       /\ ~(req[s].pc = "reg_updateCode" /\ req[s].entry.user_id = k)
       /\ ~(req[s].pc \in {"ver_updateCode", "ver_updateUser"}
              /\ req[s].body.email = users[k].email)

\* a stuck user stays stuck and unverified, whatever requests follow
StuckStaysStuck ==
  [][\A k \in 1..Len(users) : Stuck(k) => Stuck(k)']_vars

\* C30 (does not hold): no unverified user is stuck, that is, from every
\* reachable state with an unverified user some sequence of register and
\* verifyRegistration requests leads to that user being verified.  A user
\* for whom Stuck holds is never verified (StuckStaysStuck), so the claim
\* requires that Stuck holds of no user in any reachable state.
C30_NoUnverifiedUserStuck ==
  \A k \in 1..Len(users) : ~Stuck(k)

\* the register request that ended and a register request still running
\* were sent with the same body, which passes the checks, and they are the
\* only two requests received so far; no storage call has rejected
RegisterRace ==
  /\ resp.op = "register"
  /\ RegisterChecks(resp.body) = NoError
  /\ started = 2
  /\ failures = 0
  /\ \E s \in Slots : req[s].op = "register" /\ req[s].body = resp.body

\* no two user rows share an email or a username
UniqueUsers ==
  \A i, j \in 1..Len(users) :
    (users[i].email = users[j].email \/ users[i].username = users[j].username) => i = j

\* when no request is running and no storage call has rejected, every user
\* row has exactly one Register code row
OneRegisterRowPerUser ==
  (failures = 0 /\ \A s \in Slots : ~Running(s)) =>
    \A k \in 1..Len(users) :
      Cardinality({ c \in CodeRows : c.user_id = k /\ c.type = "Register" }) = 1

\* what holds of racing registrations: no duplicate user, one code row each
RegisterRaceKeepsOneRow == UniqueUsers /\ OneRegisterRowPerUser

\* C31 (does not hold): of two register requests for the same new username
\* and email that interleave, at most one responds 201 and the other ends
\* with an error; no two users share an email or a username.
C31_RegisterRaceLoserGetsError ==
  /\ UniqueUsers
  /\ RegisterRace => (resp.status = 201 \/ (resp.via = "error" /\ resp.status >= 400))

\* the Register code rows of the user that the register request that ended
\* created
CodesOfNewUser ==
  { c \in CodeRows : c.user_id = resp.newUser.id /\ c.type = "Register" }

\* C32 as stated (does not hold): when the code row's creation fails after
\* the user row was created, the user row stays in the store without any code
\* row.
C32_FailedRegisterLeavesNoCodeRow ==
  (resp.op = "register" /\ resp.newUser.id # 0 /\ resp.status # 201) =>
    /\ users[resp.newUser.id] = resp.newUser
    /\ \A c \in CodeRows : c.user_id # resp.newUser.id

\* C32, amended: register answers 201 only when the user row and its Register code
\* row are both in the store.  When the code row's creation fails after the
\* user row was created, the request ends with an error (500), the user row
\* stays in the store and it has no Register code row.
C32_NoPartialSuccessOnRegister ==
  resp.op = "register" =>
    /\ resp.status = 201 =>
         /\ resp.newUser.id \in 1..Len(users)
         /\ users[resp.newUser.id].username = resp.body.username
         /\ users[resp.newUser.id].email = resp.body.email
         /\ \E c \in CodesOfNewUser : /\ c.code = resp.out.code
                                      /\ c.id = Len(resp.before.codes) + 1
    /\ (resp.newUser.id # 0 /\ resp.status # 201) =>
         /\ resp.via = "error"
         /\ resp.status = 500
         /\ failures > 0
         /\ users[resp.newUser.id] = resp.newUser
         /\ CodesOfNewUser = {}
         /\ codes = resp.before.codes
         /\ users = resp.before.users

C32_Witness ==
  /\ resp.op = "register"
  /\ resp.newUser.id # 0
  /\ resp.status = 500
  /\ users[resp.newUser.id] = resp.newUser
  /\ CodesOfNewUser = {}

\* the register or changePassword request that ended had found a code row
\* and read the clock
ResolvedFoundCode ==
  /\ resp.op \in {"register", "changePassword"}
  /\ resp.entry.id # 0
  /\ resp.via \in {"reminded", "refreshed"}

\* C33: the expiry boundary is exclusive.  register and changePassword return
\* the code they found, unchanged, only when its expiration_time is strictly
\* greater than the time they read; when the two are equal (or the
\* expiration is earlier) they refresh the code instead.
C33_ExpiryBoundaryExclusive ==
  /\ ResolvedFoundCode =>
       /\ resp.via = "reminded" <=> resp.entry.expiration_time > resp.t
       /\ resp.via = "refreshed" <=> resp.entry.expiration_time <= resp.t
       /\ resp.via = "reminded" =>
            /\ codes = resp.before.codes
            /\ resp.out.code = resp.entry.code
            /\ resp.out.expiration_time = resp.entry.expiration_time
       /\ resp.via = "refreshed" =>
            /\ codes[resp.entry.id].expiration_time = resp.t + 1
            /\ codes[resp.entry.id].code = resp.secret
            /\ resp.out.expiration_time = resp.t + 1
  /\ \A s \in Slots :
       req[s].pc \in {"reg_updateCode", "cp_updateCode"} =>
          req[s].entry.expiration_time <= req[s].t

C33_Witness ==
  /\ ResolvedFoundCode
  /\ resp.op = "changePassword"
  /\ resp.via = "refreshed"
  /\ resp.entry.expiration_time = resp.t
  /\ resp.entry.expiration_time = resp.before.codes[resp.entry.id].expiration_time

\* a register request at the boundary, for the record of C33's two handlers
RegisterAtBoundary ==
  /\ ResolvedFoundCode
  /\ resp.op = "register"
  /\ resp.via = "refreshed"
  /\ resp.entry.expiration_time = resp.t

\* the statuses with which the handlers and validateToken raise each error
StatusRaised(message) ==
  IF message \in {"already exists", "already in use", "code is already used",
                  "password doesn't match"} THEN {409}
  ELSE IF message \in {"missing fields", "code doesn't exist", "doesn't exist",
                       "doesn't exists", "not found"} THEN {404}
  ELSE IF message \in {"doesn't match", "email format is invalid",
                       "invalid token payload", "is already used",
                       "is already verified", "is expired",
                       "password is incorrect", "password too short",
                       "username too short"} THEN {400}
  ELSE IF message = "invalid input" THEN {400, 404}
  ELSE IF message = "token" THEN {401, 403}
  ELSE {}

\* the last request ended with an error, and answered it as errorHandler does
StructuredError ==
  /\ resp.via = "error"
  /\ resp.pc = "done"
  /\ DOMAIN resp.out = {"code", "message"}
  /\ resp.out.code = resp.status

\* C34: a storage call or a password hashing or comparison that fails inside
\* a handler is not retried: the request ends in that step, the failed call
\* has written nothing, and the caller gets a structured error with status
\* 500.  An error raised by a handler's own check reaches the caller with the
\* status it was raised with.
C34_FailuresSurfaceAs500 ==
  [][ /\ failures' # failures =>
           /\ failures' = failures + 1
           /\ StructuredError'
           /\ resp'.status = 500
           /\ resp'.out.message = "rejected"
           /\ users' = users /\ codes' = codes /\ tokens' = tokens
           /\ resp'.op \in {"register", "verify", "login", "currentUser",
                           "changePassword"}
      /\ resp'.status >= 400 => StructuredError'
      /\ resp'.via = "error" =>
           /\ StructuredError'
           /\ IF resp'.out.message = "rejected"
              THEN resp'.status = 500
              ELSE resp'.status \in StatusRaised(resp'.out.message) ]_vars

C34_Witness ==
  /\ StructuredError
  /\ resp.op = "verify"
  /\ resp.status = 500
  /\ failures > 0
  /\ resp.updatedEntry.used
  /\ codes[resp.updatedEntry.id].used
  /\ ~users[resp.user.id].verified

\* the type of the code rows that the handler of a request works on
Purpose(op) ==
  IF op \in {"register", "verify"} THEN "Register"
  ELSE IF op = "changePassword" THEN "PasswordChange"
  ELSE "none"

\* the code row that the request that ended had looked up is of its purpose
LookedUpOwnPurpose ==
  resp.entry.id # 0 => resp.entry.type = Purpose(resp.op)

\* C35: codes are isolated by purpose.  verifyRegistration reads and consumes
\* only rows of type Register, and succeeds only with the code of such a row;
\* register creates and modifies only Register rows and changePassword only
\* PasswordChange rows; no step changes the type of a row.
C35_CodesIsolatedByPurpose ==
  [][ /\ LookedUpOwnPurpose'
      /\ (resp'.op = "verify" /\ resp'.status = 200) =>
            /\ resp'.entry.type = "Register"
            /\ resp'.entry.code = resp'.body.code
            /\ resp'.updatedEntry.id = resp'.entry.id
      /\ \A s \in Slots :
           req'[s] # req[s] =>
             \A k \in 1..Len(codes') :
               IF k > Len(codes)
               THEN codes'[k].type = Purpose(req[s].op)
               ELSE /\ codes'[k].type = codes[k].type
                    /\ codes'[k] # codes[k] => codes[k].type = Purpose(req[s].op) ]_vars

C35_Witness ==
  /\ resp.op = "verify"
  /\ resp.status = 400
  /\ ErrorMessage = "doesn't match"
  /\ resp.entry.type = "Register"
  /\ \E c \in CodeRows : /\ c.type = "PasswordChange"
                         /\ c.user_id = resp.user.id
                         /\ c.code = resp.body.code
                         /\ ~c.used
                         /\ c.expiration_time > now
  /\ ~users[resp.user.id].verified

\* C36 (does not hold): whenever register responds 200 with a code, the user
\* who owns the returned code row has the username and the email given in
\* the request, and the email in the response is the owner's.
C36_ReturnedCodeBelongsToRequester ==
  (resp.op = "register" /\ resp.status = 200) =>
    LET owner == users[resp.entry.user_id] IN
    /\ codes[resp.entry.id].code = resp.out.code
    /\ owner.username = resp.body.username
    /\ owner.email = resp.body.email
    /\ resp.out.email = owner.email

\* what does hold of register's 200: the code's owner has the request's
\* username and is the unverified user the lookup was made for, and the
\* email in the response is the request's
RegisterEchoesRequestEmail ==
  (resp.op = "register" /\ resp.status = 200) =>
    /\ users[resp.entry.user_id].username = resp.body.username
    /\ resp.out.email = resp.body.email

\* the type field of the response of the changePassword request that ended
\* and the type of the code row it reports
ReportedRow ==
  IF resp.via = "created" THEN codes[Len(resp.before.codes) + 1]
  ELSE codes[resp.entry.id]

\* C37 (does not hold): on each of its three success paths the type field of
\* the changePassword response equals the type of the stored code row it
\* reports, PasswordChange.
C37_ResponseTypeIsRowType ==
  (resp.op = "changePassword" /\ resp.status \in {200, 201}) =>
    /\ ReportedRow.code = resp.out.code
    /\ ReportedRow.type = "PasswordChange"
    /\ resp.out.type = ReportedRow.type

\* what does hold: the row is a PasswordChange row on all three paths, and
\* the response says so on the two paths answered 200
ResponseTypeOnFoundCode ==
  (resp.op = "changePassword" /\ resp.status \in {200, 201}) =>
    /\ ReportedRow.code = resp.out.code
    /\ ReportedRow.type = "PasswordChange"
    /\ resp.out.type = IF resp.status = 201 THEN "Register" ELSE "PasswordChange"

\* C38: login does not consult the verified flag.  A user with
\* verified = false who supplies the correct password receives a token, and
\* a changePassword request made with the token of an unverified user and
\* passing its checks is answered with a PasswordChange code of that user.
C38_LoginIgnoresVerified ==
  /\ (resp.op = "login" /\ LoginValidation(resp.body) = 0 /\ resp.status # 500) =>
       \A u \in UserRows :
         (u.email = resp.body.email /\ ~u.verified
            /\ u.password = hashPassword(resp.body.password)) =>
           /\ resp.status = 200
           /\ resp.out.user = u
           /\ resp.out.token \in tokens
           /\ resp.out.token.userId = u.id
  /\ (resp.op = "changePassword" /\ resp.user.id # 0 /\ resp.status # 500
        /\ ~users[resp.user.id].verified) =>
       /\ resp.status \in {200, 201}
       /\ \E c \in CodeRows : /\ c.user_id = resp.user.id
                              /\ c.type = "PasswordChange"
                              /\ c.code = resp.out.code

C38_Witness ==
  /\ resp.op = "changePassword"
  /\ resp.status = 201
  /\ ~users[resp.user.id].verified
  /\ audit[resp.user.email].ok = 0
  /\ audit[resp.user.email].flips = 0
  /\ resp.body.header.token.userId = resp.user.id
  /\ codes[Len(codes)].user_id = resp.user.id
  /\ codes[Len(codes)].type = "PasswordChange"

====
